---- MODULE Spec2Model ----
(***************************************************************************)
(* A model of pydm/widgets/multi_axis_viewbox.py: MultiAxisViewBox, the    *)
(* pyqtgraph ViewBox subclass PyDM stacks one per y axis.                  *)
(*                                                                         *)
(* Representation.  Every zoom factor the widget handles is a power of     *)
(* 1.02 ** wheelScaleFactor (line 52), so a factor is represented by its   *)
(* exponent, an integer number of wheel units: the product of two factors  *)
(* is the sum of the exponents (Mul), the reciprocal 1 / f is the negated  *)
(* exponent (Inv).  Arithmetic is that of the reals; float rounding is not *)
(* modelled.  A view's range is represented by the rectangle it was last   *)
(* set to ("auto" or a recorded rectangle) and the exponents by which its  *)
(* x and y extent have been scaled since.                                  *)
(*                                                                         *)
(* Every operation is one atomic step (the widget runs on the GUI thread,  *)
(* signals are delivered synchronously).  `trace` lists, in program order, *)
(* the signals emitted and the base-class calls made by the last           *)
(* operation; `pre` holds the views as they were before it and `last`      *)
(* names it.  `beforeZoom` remembers one operation more: for every view    *)
(* that handled a wheel event in the operation before the last one, the    *)
(* range it had before that event and whether the event pushed an entry.   *)
(***************************************************************************)
EXTENDS Integers, Sequences, FiniteSets

\* The number of operations of a run of the zoom history.
MaxSteps == 3
\* The number of operations of a run of the axis-rect history.
MaxHistorySteps == 4
\* The number of operations of a run that may use every operation.
MaxStepsAll == 2

\* The stacked views of one plot: an origin and a sibling.
Views == {1, 2}
\* ev.delta() in wheel units (a notch towards or away from the user).
Deltas == {-1, 1}
\* The points ev.pos() can map to in a view's coordinates.
Centers == {"c1", "c2"}
\* axis: None, ViewBox.XAxis, ViewBox.YAxis.
Axes == {"None", "X", "Y"}
YAxis == "Y"
XAxis == "X"
\* The rectangles a rubber-band drag can select.
Rects == {"r1", "r2"}
PanMode == "PanMode"
RectMode == "RectMode"
\* scaleHistory's argument.
Directions == {-1, 0, 1}

VARIABLES views, pre, last, trace, beforeZoom, steps

vars == <<views, pre, last, trace, beforeZoom, steps>>

\* An absent value (Python's None) is the empty sequence, a present one <<v>>.
None == <<>>
Some(v) == <<v>>

\* f * g and 1 / f on factors represented by their exponents.
Mul(f, g) == f + g
Inv(f) == 0 - f

Front(s) == SubSeq(s, 1, Len(s) - 1)
Top(s) == s[Len(s)]

----------------------------------------------------------------------------
(* Construction *)

\* __init__: the two stacks are empty; ViewBox.__init__ sets the history,
\* its pointer, the auto range and the mouse mode (from the configuration
\* option leftButtonPan).
NewView(mode) ==
    [undoStack |-> <<>>,
     redoStack |-> <<>>,
     axHistory |-> <<>>,
     axHistoryPointer |-> -1,
     range |-> [rect |-> "auto", ex |-> 0, ey |-> 0],
     mouseMode |-> mode]

\* One observable event is appended to the trace of world w.
Emit(w, e) == [w EXCEPT !.trace = Append(@, e)]

\* self.<field> = value on view v of world w.
SetView(w, v, field, value) == [w EXCEPT !.views[v][field] = value]

----------------------------------------------------------------------------
(* ViewBox.scaleBy(s, center): each dimension whose entry of s is not None *)
(* is scaled by it about center.                                           *)
scaleBy(w, v, s, center) ==
    LET r == w.views[v].range
        nr == [r EXCEPT !.ex = IF s[1] = None THEN @ ELSE Mul(@, s[1][1]),
                        !.ey = IF s[2] = None THEN @ ELSE Mul(@, s[2][1])]
    IN  SetView(Emit(w, [what |-> "scaleBy", view |-> v, s |-> s, center |-> center]),
                v, "range", nr)

----------------------------------------------------------------------------
(* wheelEvent *)

\* The views other than v, in ascending order: the order in which the plot
\* that owns the stack calls them.
RECURSIVE SeqOf(_)
SeqOf(S) ==
    IF S = {} THEN <<>>
    ELSE LET m == CHOOSE x \in S : \A y \in S : x <= y
         IN  <<m>> \o SeqOf(S \ {m})

Siblings(v) == SeqOf(Views \ {v})

\* center = Point(invertQTransform(self.childGroup.transform()).map(ev.pos())):
\* the event position in the view's own coordinates.  Each view has its own
\* transform, so the event carries the point it maps to in each view.
centerOf(ev, v) == ev.center[v]

\* The factor is recorded as the wheel applies it, not inverted.
wheelFactor_NotInverted(ev) == ev.delta

\* factor = 1 / (1.02 ** (ev.delta() * self.state['wheelScaleFactor']))
wheelFactor(ev) == Inv(ev.delta)

\* The redo stack is cleared inside the "if self.undoStack:" branch only.
redoAfterZoom_InsideIf(view, center, axis) ==
    IF view.undoStack # <<>> THEN <<>> ELSE view.redoStack

\* self.redoStack = []
redoAfterZoom(view, center, axis) == <<>>

\* The coalesced entry keeps the new factor alone.
recordZoom_NoProduct(undoStack, factor, center, axis) ==
    LET new == [factor |-> factor, center |-> center, axis |-> axis]
    IN  IF undoStack # <<>> /\ Top(undoStack).center = center /\ Top(undoStack).axis = axis
        THEN Append(Front(undoStack), new)
        ELSE Append(undoStack, new)

\* The top entry is compared by its center alone.
recordZoom_CenterOnly(undoStack, factor, center, axis) ==
    LET new == [factor |-> factor, center |-> center, axis |-> axis]
    IN  IF undoStack # <<>> /\ Top(undoStack).center = center
        THEN Append(Front(undoStack), [new EXCEPT !.factor = Mul(factor, Top(undoStack).factor)])
        ELSE Append(undoStack, new)

\* The undo stack after a zoom by factor about center on axis: the top entry
\* is popped and compared; it is replaced by the product when center and
\* axis are equal, and put back under a new entry otherwise.
recordZoom(undoStack, factor, center, axis) ==
    LET new == [factor |-> factor, center |-> center, axis |-> axis]
    IN  IF undoStack # <<>>
        THEN LET prev == Top(undoStack)
                 popped == Front(undoStack)
             IN  IF prev.center = center /\ prev.axis = axis
                 THEN Append(popped, [new EXCEPT !.factor = Mul(factor, prev.factor)])
                 ELSE Append(Append(popped, prev), new)
        ELSE Append(undoStack, new)

\* The mask ViewBox.wheelEvent builds from axis (mouseEnabled is [True, True]).
wheelMask(axis) ==
    IF axis = XAxis THEN <<TRUE, FALSE>>
    ELSE IF axis = YAxis THEN <<FALSE, TRUE>>
    ELSE <<TRUE, TRUE>>

\* super().wheelEvent(ev, axis), pyqtgraph's ViewBox.wheelEvent: scales the
\* dimensions of the mask by 1.02 ** (ev.delta() * wheelScaleFactor) about
\* the event position and emits sigRangeChangedManually(mask).
ViewBox_wheelEvent(w, v, ev, axis) ==
    LET mask == wheelMask(axis)
        s == [i \in 1..2 |-> IF mask[i] THEN Some(ev.delta) ELSE None]
        w1 == Emit(w, [what |-> "ViewBox.wheelEvent", view |-> v, axis |-> axis])
        w2 == scaleBy(w1, v, s, centerOf(ev, v))
    IN  Emit(w2, [what |-> "sigRangeChangedManually", view |-> v, mask |-> mask])

\* Events off the y axes are broadcast, unless they come from a broadcast.
propagates_OffAxesOnly(axis, fromSignal) == axis = "None" /\ ~fromSignal

\* Events are broadcast whatever their axis.
propagates_AnyAxis(axis, fromSignal) == ~fromSignal

\* if axis != ViewBox.YAxis and not fromSignal:
propagates(axis, fromSignal) == axis # YAxis /\ ~fromSignal

RECURSIVE wheelEvent(_, _, _, _, _)
RECURSIVE deliverWheel(_, _, _, _)

\* The slot the owning plot connects to sigMouseWheelZoomed: every other
\* view of the stack handles the event with fromSignal=True.
deliverWheel(w, sibs, ev, axis) ==
    IF sibs = <<>> THEN w
    ELSE deliverWheel(wheelEvent(w, Head(sibs), ev, axis, TRUE), Tail(sibs), ev, axis)

handleWheelEvent(w, v, ev, axis) == deliverWheel(w, Siblings(v), ev, axis)

\* self.sigMouseWheelZoomed.emit(self, ev, axis); undoStack and redoStack are
\* the stacks of the emitting view a slot sees.
emitWheelZoomed(w, v, axis) ==
    Emit(w, [what |-> "sigMouseWheelZoomed", view |-> v, axis |-> axis,
             undoStack |-> w.views[v].undoStack, redoStack |-> w.views[v].redoStack])

\* A propagated event is applied without being recorded.
wheelEvent_SkipRecordOnSignal(w, v, ev, axis, fromSignal) ==
    LET w1 == IF propagates(axis, fromSignal)
              THEN handleWheelEvent(emitWheelZoomed(w, v, axis), v, ev, axis)
              ELSE w
        center == centerOf(ev, v)
        factor == wheelFactor(ev)
        w2 == SetView(w1, v, "redoStack", redoAfterZoom(w1.views[v], center, axis))
        w3 == SetView(w2, v, "undoStack",
                      recordZoom(w2.views[v].undoStack, factor, center, axis))
    IN  ViewBox_wheelEvent(IF fromSignal THEN w1 ELSE w3, v, ev, axis)

\* The event is broadcast once the view has handled it.
wheelEvent_EmitAfter(w, v, ev, axis, fromSignal) ==
    LET center == centerOf(ev, v)
        factor == wheelFactor(ev)
        w2 == SetView(w, v, "redoStack", redoAfterZoom(w.views[v], center, axis))
        w3 == SetView(w2, v, "undoStack",
                      recordZoom(w2.views[v].undoStack, factor, center, axis))
        w4 == ViewBox_wheelEvent(w3, v, ev, axis)
    IN  IF propagates(axis, fromSignal)
        THEN handleWheelEvent(emitWheelZoomed(w4, v, axis), v, ev, axis)
        ELSE w4

wheelEvent(w, v, ev, axis, fromSignal) ==
    LET w1 == IF propagates(axis, fromSignal)
              THEN handleWheelEvent(emitWheelZoomed(w, v, axis), v, ev, axis)
              ELSE w
        center == centerOf(ev, v)
        factor == wheelFactor(ev)
        w2 == SetView(w1, v, "redoStack", redoAfterZoom(w1.views[v], center, axis))
        w3 == SetView(w2, v, "undoStack",
                      recordZoom(w2.views[v].undoStack, factor, center, axis))
    IN  ViewBox_wheelEvent(w3, v, ev, axis)

----------------------------------------------------------------------------
(* undo *)

\* mask = [True, True]
undoMask == <<TRUE, TRUE>>

\* s = [(None if m is False else scale) for m in mask]
undoScale(scale, mask) == [i \in 1..2 |-> IF mask[i] = FALSE THEN None ELSE Some(scale)]

\* The redo entry keeps the scale as it is.
redoScale_Same(scale) == scale

\* redoScale = 1 / scale
redoScale(scale) == Inv(scale)

\* The mask is built from the recorded axis, as the wheel builds it.
undo_MaskFromAxis(w, v) ==
    IF w.views[v].undoStack # <<>>
    THEN LET e == Top(w.views[v].undoStack)
             w1 == SetView(w, v, "undoStack", Front(w.views[v].undoStack))
             mask == wheelMask(e.axis)
             s == undoScale(e.factor, mask)
             w2 == Emit(w1, [what |-> "zoomSignal", view |-> v, scale |-> e.factor,
                             center |-> e.center, axis |-> e.axis])
             w3 == scaleBy(w2, v, s, e.center)
             w4 == Emit(w3, [what |-> "sigRangeChangedManually", view |-> v, mask |-> mask])
         IN  SetView(w4, v, "redoStack",
                     Append(w4.views[v].redoStack,
                            [factor |-> redoScale(e.factor), center |-> e.center,
                             axis |-> e.axis]))
    ELSE w

\* The top entry is popped, announced by zoomSignal, applied by scaleBy and
\* recorded inverted on the redo stack.  _resetTarget() and the two print
\* calls touch nothing the model holds.
undo(w, v) ==
    IF w.views[v].undoStack # <<>>
    THEN LET e == Top(w.views[v].undoStack)
             w1 == SetView(w, v, "undoStack", Front(w.views[v].undoStack))
             mask == undoMask
             s == undoScale(e.factor, mask)
             w2 == Emit(w1, [what |-> "zoomSignal", view |-> v, scale |-> e.factor,
                             center |-> e.center, axis |-> e.axis])
             w3 == scaleBy(w2, v, s, e.center)
             w4 == Emit(w3, [what |-> "sigRangeChangedManually", view |-> v, mask |-> mask])
         IN  SetView(w4, v, "redoStack",
                     Append(w4.views[v].redoStack,
                            [factor |-> redoScale(e.factor), center |-> e.center,
                             axis |-> e.axis]))
    ELSE w

----------------------------------------------------------------------------
(* mouseDragEvent *)

\* ViewBox.showAxRect(ax): the view range is set to the rectangle.
showAxRect(w, v, ax) ==
    SetView(Emit(w, [what |-> "showAxRect", view |-> v, rect |-> ax]),
            v, "range", [rect |-> ax, ex |-> 0, ey |-> 0])

\* ViewBox.enableAutoRange(): the view range follows the data again.
enableAutoRange(w, v) ==
    SetView(Emit(w, [what |-> "enableAutoRange", view |-> v]),
            v, "range", [rect |-> "auto", ex |-> 0, ey |-> 0])

\* super().mouseDragEvent(ev, axis), pyqtgraph's ViewBox.mouseDragEvent for
\* the left button: in RectMode off the axes a finished drag shows the
\* selected rectangle and records it after the history pointer, dropping
\* the entries beyond it; every other left drag pans.
ViewBox_mouseDragEvent(w, v, ev, axis) ==
    LET view == w.views[v]
        w1 == Emit(w, [what |-> "ViewBox.mouseDragEvent", view |-> v, axis |-> axis])
    IN  IF view.mouseMode = RectMode /\ axis = "None"
        THEN IF ev.finish
             THEN LET w2 == showAxRect(w1, v, ev.rect)
                      ptr == view.axHistoryPointer + 1
                      w3 == SetView(w2, v, "axHistoryPointer", ptr)
                  IN  SetView(w3, v, "axHistory",
                              Append(SubSeq(view.axHistory, 1, ptr), ev.rect))
             ELSE w1
        ELSE Emit(Emit(w1, [what |-> "translateBy", view |-> v]),
                  [what |-> "sigRangeChangedManually", view |-> v,
                   mask |-> wheelMask(axis)])

RECURSIVE mouseDragEvent(_, _, _, _, _)
RECURSIVE deliverDrag(_, _, _, _)

\* The slot the owning plot connects to sigMouseDragged: every other view of
\* the stack handles the event with fromSignal=True.
deliverDrag(w, sibs, ev, axis) ==
    IF sibs = <<>> THEN w
    ELSE deliverDrag(mouseDragEvent(w, Head(sibs), ev, axis, TRUE), Tail(sibs), ev, axis)

handleMouseDragEvent(w, v, ev, axis) == deliverDrag(w, Siblings(v), ev, axis)

\* The end of a drag is announced on the axes too.
dragDone_AnyAxis(view, ev, axis) ==
    ev.finish /\ view.mouseMode = RectMode

\* The condition under which sigMouseDraggedDone follows sigMouseDragged.
dragDone(view, ev, axis) ==
    ev.finish /\ view.mouseMode = RectMode /\ axis = "None"

\* A finished drag is recorded on the undo stack, as a wheel zoom is.
mouseDragEvent_Records(w, v, ev, axis, fromSignal) ==
    LET w1 == IF propagates(axis, fromSignal)
              THEN LET wa == handleMouseDragEvent(
                                 Emit(w, [what |-> "sigMouseDragged", view |-> v,
                                          axis |-> axis]),
                                 v, ev, axis)
                   IN  IF dragDone(wa.views[v], ev, axis)
                       THEN Emit(wa, [what |-> "sigMouseDraggedDone", view |-> v])
                       ELSE wa
              ELSE w
        w2 == IF ev.finish
              THEN SetView(w1, v, "undoStack",
                           Append(w1.views[v].undoStack,
                                  [factor |-> 0, center |-> "c1", axis |-> axis]))
              ELSE w1
    IN  ViewBox_mouseDragEvent(w2, v, ev, axis)

mouseDragEvent(w, v, ev, axis, fromSignal) ==
    LET w1 == IF propagates(axis, fromSignal)
              THEN LET wa == handleMouseDragEvent(
                                 Emit(w, [what |-> "sigMouseDragged", view |-> v,
                                          axis |-> axis]),
                                 v, ev, axis)
                   IN  IF dragDone(wa.views[v], ev, axis)
                       THEN Emit(wa, [what |-> "sigMouseDraggedDone", view |-> v])
                       ELSE wa
              ELSE w
    IN  ViewBox_mouseDragEvent(w1, v, ev, axis)

----------------------------------------------------------------------------
(* scaleHistory *)

\* self.axHistory[ptr] as Python indexes a list: from the end for a negative
\* index, IndexError out of range.
historyAt(axHistory, ptr) ==
    IF 0 <= ptr /\ ptr < Len(axHistory) THEN axHistory[ptr + 1]
    ELSE IF ptr < 0 /\ 0 - ptr <= Len(axHistory) THEN axHistory[Len(axHistory) + ptr + 1]
    ELSE "IndexError"

\* Forward navigation without the check against the end.
movePointer_NoUpperBound(ptr, d, len) ==
    IF d = -1 /\ ptr # -1 THEN ptr - 1
    ELSE IF d = 1 THEN ptr + 1
    ELSE IF d = 0 THEN -1
    ELSE ptr

\* Backward navigation bounded at 0, as in ViewBox.scaleHistory.
movePointer_BoundedAtZero(ptr, d, len) ==
    IF d = -1 /\ ptr > 0 THEN ptr - 1
    ELSE IF d = 1 /\ ptr # len - 1 THEN ptr + 1
    ELSE IF d = 0 THEN -1
    ELSE ptr

\* Direction 0 falls through without resetting the pointer.
movePointer_NoReset(ptr, d, len) ==
    IF d = -1 /\ ptr # -1 THEN ptr - 1
    ELSE IF d = 1 /\ ptr # len - 1 THEN ptr + 1
    ELSE ptr

\* The pointer after scaleHistory(d) on a non-empty history.
movePointer(ptr, d, len) ==
    IF d = -1 /\ ptr # -1 THEN ptr - 1
    ELSE IF d = 1 /\ ptr # len - 1 THEN ptr + 1
    ELSE IF d = 0 THEN -1
    ELSE ptr

\* The re-display that ends scaleHistory on a non-empty history.
redisplay(w, v) ==
    LET view == w.views[v]
    IN  IF view.axHistoryPointer = -1
        THEN enableAutoRange(w, v)
        ELSE showAxRect(w, v, historyAt(view.axHistory, view.axHistoryPointer))

\* self.sigHistoryChanged.emit(d); ptr is the pointer a slot sees.
emitHistoryChanged(w, v, d) ==
    Emit(w, [what |-> "sigHistoryChanged", view |-> v, d |-> d,
             ptr |-> w.views[v].axHistoryPointer])

\* The history is moved and shown without the emptiness check.
scaleHistory_NoGuard(w, v, d) ==
    LET w1 == emitHistoryChanged(w, v, d)
        view == w1.views[v]
    IN  redisplay(SetView(w1, v, "axHistoryPointer",
                          movePointer(view.axHistoryPointer, d, Len(view.axHistory))),
                  v)

\* The signal is emitted inside the "if len(self.axHistory) != 0:" branch.
scaleHistory_EmitInsideIf(w, v, d) ==
    LET view == w.views[v]
    IN  IF Len(view.axHistory) # 0
        THEN redisplay(SetView(emitHistoryChanged(w, v, d), v, "axHistoryPointer",
                               movePointer(view.axHistoryPointer, d, Len(view.axHistory))),
                       v)
        ELSE w

\* The range is shown again only when the pointer moved.
scaleHistory_ShowOnMove(w, v, d) ==
    LET w1 == emitHistoryChanged(w, v, d)
        view == w1.views[v]
        ptr == movePointer(view.axHistoryPointer, d, Len(view.axHistory))
    IN  IF Len(view.axHistory) # 0 /\ ptr # view.axHistoryPointer
        THEN redisplay(SetView(w1, v, "axHistoryPointer", ptr), v)
        ELSE w1

scaleHistory(w, v, d) ==
    LET w1 == emitHistoryChanged(w, v, d)
        view == w1.views[v]
    IN  IF Len(view.axHistory) # 0
        THEN redisplay(SetView(w1, v, "axHistoryPointer",
                               movePointer(view.axHistoryPointer, d, Len(view.axHistory))),
                       v)
        ELSE w1

----------------------------------------------------------------------------
(* keyPressEvent *)

\* The key events: ev.text() and ev.key().
Keys ==
    {[text |-> "-", key |-> "Key_Minus"],
     [text |-> "+", key |-> "Key_Plus"],
     [text |-> "=", key |-> "Key_Equal"],
     [text |-> "", key |-> "Key_Backspace"],
     [text |-> "a", key |-> "Key_A"]}

\* "-" moves backward in the axis-rect history, as the docstring has it.
keyPressEvent_MinusHistory(w, v, ev) ==
    LET w1 == Emit(w, [what |-> "ev.accept", view |-> v])
    IN  IF ev.text = "-" THEN scaleHistory(w1, v, -1)
        ELSE IF ev.text \in {"+", "="} THEN scaleHistory(w1, v, 1)
        ELSE IF ev.key = "Key_Backspace" THEN scaleHistory(w1, v, 0)
        ELSE Emit(w1, [what |-> "ev.ignore", view |-> v])

\* "+" and "=" apply the last undone zoom again.
keyPressEvent_PlusRedoes(w, v, ev) ==
    LET w1 == Emit(w, [what |-> "ev.accept", view |-> v])
        redoStack == w1.views[v].redoStack
    IN  IF ev.text = "-" THEN undo(w1, v)
        ELSE IF ev.text \in {"+", "="}
             THEN IF redoStack # <<>>
                  THEN LET e == Top(redoStack)
                           w2 == SetView(w1, v, "redoStack", Front(redoStack))
                       IN  scaleBy(w2, v, undoScale(e.factor, undoMask), e.center)
                  ELSE scaleHistory(w1, v, 1)
        ELSE IF ev.key = "Key_Backspace" THEN scaleHistory(w1, v, 0)
        ELSE Emit(w1, [what |-> "ev.ignore", view |-> v])

keyPressEvent(w, v, ev) ==
    LET w1 == Emit(w, [what |-> "ev.accept", view |-> v])
    IN  IF ev.text = "-" THEN undo(w1, v)
        ELSE IF ev.text \in {"+", "="} THEN scaleHistory(w1, v, 1)
        ELSE IF ev.key = "Key_Backspace" THEN scaleHistory(w1, v, 0)
        ELSE Emit(w1, [what |-> "ev.ignore", view |-> v])

----------------------------------------------------------------------------------------------------------------------------------------
(* The state machine *)

\* The world an operation starts in: the views, and an empty trace.
Start == [views |-> views, trace |-> <<>>]

\* The views that handled the wheel event of the last operation.
WheelHandlers ==
    {trace[i].view : i \in {j \in 1..Len(trace) : trace[j].what = "ViewBox.wheelEvent"}}

\* One operation op took the world from Start to w.
Done(op, w) ==
    /\ views' = w.views
    /\ trace' = w.trace
    /\ pre' = views
    /\ last' = op
    /\ beforeZoom' =
           [u \in Views |->
               IF last.op = "wheelEvent" /\ u \in WheelHandlers
               THEN Some([range |-> pre[u].range,
                          pushed |-> Len(views[u].undoStack) = Len(pre[u].undoStack) + 1])
               ELSE None]
    /\ steps' = steps + 1

Init ==
    /\ \E mode \in {PanMode, RectMode} : views = [v \in Views |-> NewView(mode)]
    /\ pre = views
    /\ last = [op |-> "init"]
    /\ trace = <<>>
    /\ beforeZoom = [u \in Views |-> None]
    /\ steps = 0

\* wheelEvent(ev, axis, fromSignal) is called on view v.  The event maps to
\* a center in every view it reaches: one is drawn for each.
WheelCall(fromSignal) ==
    \E v \in Views, delta \in Deltas, center \in [Views -> Centers], axis \in Axes :
        /\ (axis = YAxis \/ fromSignal) => \A u \in Views : center[u] = center[v]
        /\ Done([op |-> "wheelEvent", view |-> v, delta |-> delta, center |-> center,
                 axis |-> axis, fromSignal |-> fromSignal],
                wheelEvent(Start, v, [delta |-> delta, center |-> center], axis,
                           fromSignal))

\* mouseDragEvent(ev, axis, fromSignal) is called on view v.
DragCall(fromSignal) ==
    \E v \in Views, finish \in BOOLEAN, rect \in Rects, axis \in Axes :
        /\ ~finish => rect = "r1"
        /\ Done([op |-> "mouseDragEvent", view |-> v, finish |-> finish, rect |-> rect,
                 axis |-> axis, fromSignal |-> fromSignal],
                mouseDragEvent(Start, v, [finish |-> finish, rect |-> rect], axis,
                               fromSignal))

\* The user turns the wheel over view v or over one of its axes.
WheelEvent == WheelCall(FALSE)

\* A caller forwards a wheel event to view v alone.
ForwardedWheelEvent == WheelCall(TRUE)

\* The user drags the mouse over view v or over one of its axes.
MouseDragEvent == DragCall(FALSE)

\* A caller forwards a drag event to view v alone.
ForwardedMouseDragEvent == DragCall(TRUE)

KeyPressEvent ==
    \E v \in Views, ev \in Keys :
        Done([op |-> "keyPressEvent", view |-> v, ev |-> ev], keyPressEvent(Start, v, ev))

Undo ==
    \E v \in Views : Done([op |-> "undo", view |-> v], undo(Start, v))

ScaleHistory ==
    \E v \in Views, d \in Directions :
        Done([op |-> "scaleHistory", view |-> v, d |-> d], scaleHistory(Start, v, d))

\* Every operation of the widget, for runs of MaxStepsAll operations.
Next ==
    \/ steps < MaxStepsAll /\ WheelEvent
    \/ steps < MaxStepsAll /\ ForwardedWheelEvent
    \/ steps < MaxStepsAll /\ MouseDragEvent
    \/ steps < MaxStepsAll /\ ForwardedMouseDragEvent
    \/ steps < MaxStepsAll /\ KeyPressEvent
    \/ steps < MaxStepsAll /\ Undo
    \/ steps < MaxStepsAll /\ ScaleHistory

Spec == Init /\ [][Next]_vars

\* The zoom history: every operation of the user but the drags.
NextZoom ==
    \/ steps < MaxSteps /\ WheelEvent
    \/ steps < MaxSteps /\ KeyPressEvent
    \/ steps < MaxSteps /\ Undo
    \/ steps < MaxSteps /\ ScaleHistory

SpecZoom == Init /\ [][NextZoom]_vars

\* The axis-rect history: the user's drags, scaleHistory and the keys.
NextHistory ==
    \/ steps < MaxHistorySteps /\ MouseDragEvent
    \/ steps < MaxHistorySteps /\ KeyPressEvent
    \/ steps < MaxHistorySteps /\ ScaleHistory

SpecHistory == Init /\ [][NextHistory]_vars

----------------------------------------------------------------------------
(* Properties of the zoom history *)

\* The last operation ran wheelEvent / undo / scaleHistory on view last.view.
WheelCalled == last.op = "wheelEvent"
UndoCalled ==
    \/ last.op = "undo"
    \/ last.op = "keyPressEvent" /\ last.ev.text = "-"
HistoryCalled ==
    \/ last.op = "scaleHistory"
    \/ last.op = "keyPressEvent" /\ (last.ev.text \in {"+", "="} \/ last.ev.key = "Key_Backspace")

\* The direction scaleHistory was called with.
HistoryDirection ==
    IF last.op = "scaleHistory" THEN last.d
    ELSE IF last.ev.text \in {"+", "="} THEN 1 ELSE 0

\* The entries of the trace that are `what` on view v.
Count(what, v) ==
    Cardinality({i \in 1..Len(trace) : trace[i].what = what /\ trace[i].view = v})

\* The incoming wheel event has the center and axis of the top entry of the
\* undo stack view u had.
MatchesTop(u) ==
    /\ pre[u].undoStack # <<>>
    /\ Top(pre[u].undoStack).center = last.center[u]
    /\ Top(pre[u].undoStack).axis = last.axis

\* C1: after a wheel event, on whatever axis, the redo stack of every view
\* that handled it (the view it reached and, when it was propagated, the
\* siblings it reached with fromSignal=True) is empty, whether their zoom was
\* coalesced or pushed.
C1_RedoEmptyAfterWheel ==
    WheelCalled =>
        /\ last.view \in WheelHandlers
        /\ \A u \in WheelHandlers : views[u].redoStack = <<>>

\* A wheel event reached, propagated, a sibling whose redo stack was not empty.
C1_Witness ==
    /\ WheelCalled
    /\ \E u \in WheelHandlers : u # last.view /\ pre[u].redoStack # <<>>

\* C2: a wheel event whose center and axis equal those of the top entry of a
\* non-empty undo stack leaves the length of the stack and every entry below
\* the top unchanged, and the top becomes (factor * previous factor, center,
\* axis).
C2_CoalesceOnMatch ==
    WheelCalled =>
        \A u \in WheelHandlers :
            MatchesTop(u) =>
                LET old == pre[u].undoStack
                    new == views[u].undoStack
                IN  /\ Len(new) = Len(old)
                    /\ Front(new) = Front(old)
                    /\ Top(new) = [factor |-> Mul(Inv(last.delta), Top(old).factor),
                                   center |-> last.center[u],
                                   axis |-> last.axis]

\* A wheel event was coalesced into the top of a stack of two entries.
C2_Witness ==
    /\ WheelCalled
    /\ \E u \in WheelHandlers : MatchesTop(u) /\ Len(pre[u].undoStack) = 2

\* C3: a wheel event that finds the undo stack empty, or whose center or axis
\* differs from the top entry's, appends exactly (factor, center, axis) and
\* leaves every existing entry unchanged; only the top is compared.
C3_PushOnMismatch ==
    WheelCalled =>
        \A u \in WheelHandlers :
            ~MatchesTop(u) =>
                views[u].undoStack =
                    Append(pre[u].undoStack,
                           [factor |-> Inv(last.delta), center |-> last.center[u],
                            axis |-> last.axis])

\* The sequence A, B, A: a third entry was pushed with the center and axis of
\* the first.
C3_Witness ==
    /\ WheelCalled
    /\ \E u \in WheelHandlers :
           LET st == views[u].undoStack
           IN  /\ Len(st) = 3
               /\ Len(pre[u].undoStack) = 2
               /\ st[1].center = st[3].center
               /\ st[1].axis = st[3].axis

\* The entry undo popped, when the undo stack was not empty.
UndoRan == UndoCalled /\ pre[last.view].undoStack # <<>>
Popped == Top(pre[last.view].undoStack)

\* The indices of the trace that are `what` on view v.
Where(what, v) == {i \in 1..Len(trace) : trace[i].what = what /\ trace[i].view = v}

\* The claim as first stated: undo applies the reciprocal of the recorded
\* factor, and a wheel zoom followed immediately by undo restores the range.
C4_UndoAppliesReciprocal ==
    UndoRan =>
        LET v == last.view
        IN  /\ \A i \in Where("scaleBy", v) :
                   /\ trace[i].s = <<Some(Inv(Popped.factor)), Some(Inv(Popped.factor))>>
                   /\ trace[i].center = Popped.center
            /\ beforeZoom[v] # None => views[v].range = beforeZoom[v][1].range

\* C4 (amended): undo scales both dimensions, about the recorded center, by
\* the factor recorded in the popped entry itself; that factor is the
\* reciprocal of the scaling the wheel applied.  A wheel zoom that pushed its
\* own entry, followed immediately by undo, is thereby restored in every
\* dimension the zoom scaled, and a dimension it did not scale (axis X or Y)
\* is scaled by the recorded factor.
C4_UndoAppliesRecorded ==
    UndoRan =>
        LET v == last.view
            f == Popped.factor
        IN  /\ Cardinality(Where("scaleBy", v)) = 1
            /\ \A i \in Where("scaleBy", v) :
                   /\ trace[i].s = <<Some(f), Some(f)>>
                   /\ trace[i].center = Popped.center
            /\ views[v].range = [pre[v].range EXCEPT !.ex = Mul(@, f), !.ey = Mul(@, f)]
            /\ (beforeZoom[v] # None /\ beforeZoom[v][1].pushed) =>
                   LET b == beforeZoom[v][1].range
                   IN  views[v].range =
                           [b EXCEPT !.ex = IF Popped.axis = YAxis THEN Mul(@, f) ELSE @,
                                     !.ey = IF Popped.axis = XAxis THEN Mul(@, f) ELSE @]

\* A wheel zoom off the axes pushed an entry and the undo that followed
\* brought the range back.
C4_Witness ==
    /\ UndoRan
    /\ beforeZoom[last.view] # None
    /\ beforeZoom[last.view][1].pushed
    /\ Popped.axis = "None"
    /\ Popped.factor # 0
    /\ views[last.view].range = beforeZoom[last.view][1].range
    /\ views[last.view].range # pre[last.view].range

\* C5: undo on a non-empty undo stack removes exactly the top entry (scale,
\* center, axis), leaves the entries below unchanged, emits zoomSignal once
\* (with scale, center, axis) and appends exactly (1 / scale, center, axis)
\* to the redo stack, so the two lengths keep their sum.
C5_UndoMovesTopToRedo ==
    UndoRan =>
        LET v == last.view
        IN  /\ views[v].undoStack = Front(pre[v].undoStack)
            /\ views[v].redoStack =
                   Append(pre[v].redoStack,
                          [factor |-> Inv(Popped.factor), center |-> Popped.center,
                           axis |-> Popped.axis])
            /\ Cardinality(Where("zoomSignal", v)) = 1
            /\ \A i \in Where("zoomSignal", v) :
                   /\ trace[i].scale = Popped.factor
                   /\ trace[i].center = Popped.center
                   /\ trace[i].axis = Popped.axis
            /\ Len(views[v].undoStack) + Len(views[v].redoStack)
                   = Len(pre[v].undoStack) + Len(pre[v].redoStack)

\* undo popped the top of a stack of two entries.
C5_Witness ==
    /\ UndoRan
    /\ Len(pre[last.view].undoStack) = 2
    /\ Len(views[last.view].redoStack) = 1

\* C6: undo on an empty undo stack changes nothing (stacks, range) and emits
\* neither zoomSignal nor sigRangeChangedManually; scaleHistory on an empty
\* history never reads the history and leaves the pointer unchanged.
C6_EmptyIsNoop ==
    LET v == last.view
    IN  /\ (UndoCalled /\ pre[v].undoStack = <<>>) =>
               /\ views = pre
               /\ Where("zoomSignal", v) = {}
               /\ Where("sigRangeChangedManually", v) = {}
               /\ Where("scaleBy", v) = {}
        /\ (HistoryCalled /\ pre[v].axHistory = <<>>) =>
               /\ views = pre
               /\ Where("showAxRect", v) = {}
               /\ Where("enableAutoRange", v) = {}

\* undo was called on an empty undo stack beside a non-empty redo stack.
C6_Witness ==
    /\ UndoCalled
    /\ pre[last.view].undoStack = <<>>
    /\ pre[last.view].redoStack # <<>>

----------------------------------------------------------------------------
(* Properties of the axis-rect history *)

\* C7: the history pointer of every view stays within -1 .. len(axHistory) - 1
\* through every sequence of scaleHistory calls and key presses, so
\* axHistory[axHistoryPointer] is never read out of range.
C7_PointerInRange ==
    /\ \A v \in Views :
           /\ -1 <= views[v].axHistoryPointer
           /\ views[v].axHistoryPointer <= Len(views[v].axHistory) - 1
    /\ \A i \in 1..Len(trace) :
           trace[i].what = "showAxRect" => trace[i].rect \in Rects

\* scaleHistory(1) was called with the pointer on the last of two rectangles.
C7_Witness ==
    /\ HistoryCalled
    /\ HistoryDirection = 1
    /\ Len(pre[last.view].axHistory) = 2
    /\ pre[last.view].axHistoryPointer = 1
    /\ Where("showAxRect", last.view) # {}

\* The claim as first stated: scaleHistory(-1) is bounded at 0.
C8_BackwardBoundedAtZero ==
    (HistoryCalled /\ HistoryDirection = -1 /\ pre[last.view].axHistory # <<>>) =>
        LET old == pre[last.view].axHistoryPointer
            new == views[last.view].axHistoryPointer
        IN  /\ old > 0 => new = old - 1
            /\ old = 0 => new = 0

\* C8 (amended): on a non-empty history scaleHistory(-1) decrements the
\* pointer whenever it is not -1 and leaves it at -1 otherwise: backward
\* navigation is bounded at -1, and from 0 it reaches -1 and shows the auto
\* range.
C8_BackwardBoundedAtAuto ==
    (HistoryCalled /\ HistoryDirection = -1 /\ pre[last.view].axHistory # <<>>) =>
        LET old == pre[last.view].axHistoryPointer
            new == views[last.view].axHistoryPointer
        IN  /\ old # -1 => new = old - 1
            /\ old = -1 => new = -1
            /\ new = -1 => Where("enableAutoRange", last.view) # {}

\* scaleHistory(-1) took the pointer from 0 to -1.
C8_Witness ==
    /\ HistoryCalled
    /\ HistoryDirection = -1
    /\ pre[last.view].axHistoryPointer = 0
    /\ views[last.view].axHistoryPointer = -1

\* The claim as first stated: scaleHistory(0) always resets the pointer and
\* calls enableAutoRange, also on an empty history.
C9_ResetAlwaysAutoRanges ==
    (HistoryCalled /\ HistoryDirection = 0) =>
        /\ views[last.view].axHistoryPointer = -1
        /\ Where("enableAutoRange", last.view) # {}

\* C9 (amended): scaleHistory(0) leaves the pointer at -1 in every reachable
\* state; on a non-empty history it calls enableAutoRange, exactly once, and
\* on an empty history it calls nothing and changes nothing.
C9_ResetAutoRangesOnHistory ==
    (HistoryCalled /\ HistoryDirection = 0) =>
        LET v == last.view
        IN  /\ views[v].axHistoryPointer = -1
            /\ Where("showAxRect", v) = {}
            /\ pre[v].axHistory # <<>> =>
                   /\ Cardinality(Where("enableAutoRange", v)) = 1
                   /\ views[v].range = [rect |-> "auto", ex |-> 0, ey |-> 0]
            /\ pre[v].axHistory = <<>> =>
                   /\ Where("enableAutoRange", v) = {}
                   /\ views = pre

\* scaleHistory(0) reset a pointer that stood on a rectangle.
C9_Witness ==
    /\ HistoryCalled
    /\ HistoryDirection = 0
    /\ pre[last.view].axHistoryPointer >= 0
    /\ views[last.view].axHistoryPointer = -1

\* C10: every call scaleHistory(d) emits sigHistoryChanged exactly once, with
\* the raw d, before the pointer is updated and before anything is shown,
\* whether or not the pointer moves and also on an empty history.
C10_HistoryChangedOnce ==
    HistoryCalled =>
        LET v == last.view
        IN  /\ Cardinality({i \in 1..Len(trace) : trace[i].what = "sigHistoryChanged"}) = 1
            /\ \A i \in Where("sigHistoryChanged", v) :
                   /\ trace[i].d = HistoryDirection
                   /\ trace[i].ptr = pre[v].axHistoryPointer
                   /\ \A j \in Where("showAxRect", v) \cup Where("enableAutoRange", v) : i < j
            /\ Where("sigHistoryChanged", v) # {}

\* scaleHistory(1) was called with the pointer already on the last rectangle.
C10_Witness ==
    /\ last.op = "scaleHistory"
    /\ last.d = 1
    /\ pre[last.view].axHistory # <<>>
    /\ pre[last.view].axHistoryPointer = Len(pre[last.view].axHistory) - 1
    /\ views[last.view].axHistoryPointer = pre[last.view].axHistoryPointer
    /\ Where("sigHistoryChanged", last.view) # {}

----------------------------------------------------------------------------
(* Properties of the propagation between the stacked views *)

DragCalled == last.op = "mouseDragEvent"

\* The indices of the trace that are `what`, on whatever view.
All(what) == {i \in 1..Len(trace) : trace[i].what = what}

\* The broadcasts of the last operation.
Broadcasts == All("sigMouseWheelZoomed") \cup All("sigMouseDragged")

\* The signal a wheel or drag event is broadcast with, and the base-class
\* call that ends its handling.
BroadcastOfLast == IF WheelCalled THEN "sigMouseWheelZoomed" ELSE "sigMouseDragged"
HandlingOfLast == IF WheelCalled THEN "ViewBox.wheelEvent" ELSE "ViewBox.mouseDragEvent"

\* C11: one user wheel or drag event with axis None or X causes exactly one
\* broadcast, by the view it reached, and every view of the stack handles it
\* exactly once; a handler called with fromSignal=True emits no broadcast and
\* reaches no other view.
C11_BroadcastOnce ==
    (WheelCalled \/ DragCalled) =>
        /\ (~last.fromSignal /\ last.axis # YAxis) =>
               /\ Cardinality(Broadcasts) = 1
               /\ Cardinality(Where(BroadcastOfLast, last.view)) = 1
               /\ \A u \in Views : Cardinality(Where(HandlingOfLast, u)) = 1
               /\ Cardinality(All(HandlingOfLast)) = Cardinality(Views)
        /\ last.fromSignal =>
               /\ Broadcasts = {}
               /\ Cardinality(All(HandlingOfLast)) = 1
               /\ Cardinality(Where(HandlingOfLast, last.view)) = 1

\* A user's drag on the x axis was broadcast and handled by the sibling.
C11_Witness ==
    /\ DragCalled
    /\ ~last.fromSignal
    /\ last.axis = XAxis
    /\ \E u \in Views \ {last.view} : Where("ViewBox.mouseDragEvent", u) # {}

\* C12: a wheel or drag event on a y axis stays with the view it reached,
\* for either value of fromSignal: none of sigMouseWheelZoomed,
\* sigMouseDragged, sigMouseDraggedDone is emitted and every sibling keeps
\* its undo stack, redo stack and range.
C12_YAxisStaysLocal ==
    ((WheelCalled \/ DragCalled) /\ last.axis = YAxis) =>
        /\ Broadcasts = {}
        /\ All("sigMouseDraggedDone") = {}
        /\ \A u \in Views \ {last.view} :
               /\ views[u].undoStack = pre[u].undoStack
               /\ views[u].redoStack = pre[u].redoStack
               /\ views[u].range = pre[u].range
               /\ Where(HandlingOfLast, u) = {}

\* A y-axis wheel event changed its own view beside a sibling that has a
\* zoom of its own recorded.
C12_Witness ==
    /\ WheelCalled
    /\ last.axis = YAxis
    /\ views[last.view].undoStack # pre[last.view].undoStack
    /\ \E u \in Views \ {last.view} : views[u].undoStack # <<>>

\* C13: mouseDragEvent emits sigMouseDraggedDone exactly when the event is
\* the user's (fromSignal false), axis is None, the drag is finished and the
\* mouse mode is RectMode; then it is emitted once in the whole stack, by the
\* view the drag reached, and after sigMouseDragged.
C13_DraggedDoneExactlyWhen ==
    DragCalled =>
        LET v == last.view
            due == /\ ~last.fromSignal
                   /\ last.axis = "None"
                   /\ last.finish
                   /\ pre[v].mouseMode = RectMode
        IN  /\ Cardinality(All("sigMouseDraggedDone")) = (IF due THEN 1 ELSE 0)
            /\ All("sigMouseDraggedDone") = Where("sigMouseDraggedDone", v)
            /\ \A i \in All("sigMouseDraggedDone") :
                   \E j \in Where("sigMouseDragged", v) : j < i

\* A finished rubber-band drag was announced once, after the sibling had
\* handled the propagated event.
C13_Witness ==
    /\ DragCalled
    /\ Cardinality(All("sigMouseDraggedDone")) = 1
    /\ \E u \in Views \ {last.view} :
           \E i \in Where("ViewBox.mouseDragEvent", u) :
               \A j \in All("sigMouseDraggedDone") : i < j

----------------------------------------------------------------------------
(* Properties of the keys *)

KeyCalled == last.op = "keyPressEvent"

\* The world the last operation started in.
PreWorld == [views |-> pre, trace |-> <<>>]

\* Whether the key event ends accepted: the last of ev.accept() and
\* ev.ignore() decides.
Accepted ==
    LET marks == All("ev.accept") \cup All("ev.ignore")
    IN  /\ marks # {}
        /\ trace[CHOOSE i \in marks : \A j \in marks : j <= i].what = "ev.accept"

----------------------------------------------------------------------------
(* Properties of the recording in the stacked views *)

\* The stacks view u holds after handling the wheel event of the last
\* operation on the stacks it held before: a function of the factor, the
\* center, the axis and the prior stacks alone.
RecordedBy(u) ==
    [undoStack |-> recordZoom(pre[u].undoStack, wheelFactor(last), last.center[u],
                              last.axis),
     redoStack |-> <<>>]

\* C15: a wheel event is recorded by every view that handles it, the
\* views it was propagated to as the view it started on: each has an empty
\* redoStack and its own undoStack with the entry pushed or coalesced, and
\* an event off the y axes is handled by every view of the stack.
C15_PropagatedRecordedAlike ==
    WheelCalled =>
        /\ \A u \in WheelHandlers :
               /\ views[u].redoStack = RecordedBy(u).redoStack
               /\ views[u].undoStack = RecordedBy(u).undoStack
               /\ Len(views[u].undoStack) \in
                      {Len(pre[u].undoStack), Len(pre[u].undoStack) + 1}
        /\ (last.axis # YAxis /\ ~last.fromSignal) => WheelHandlers = Views

\* A wheel event over the x axis reached a sibling that had an undone zoom:
\* the sibling dropped it and pushed, the view of the event coalesced.
C15_Witness ==
    /\ WheelCalled
    /\ last.axis = XAxis
    /\ ~last.fromSignal
    /\ \E u \in Views \ {last.view} :
           /\ pre[u].redoStack # <<>>
           /\ views[u].redoStack = <<>>
           /\ Len(views[u].undoStack) = Len(pre[u].undoStack) + 1
    /\ Len(views[last.view].undoStack) = Len(pre[last.view].undoStack)

----------------------------------------------------------------------------
(* Properties of the re-display *)

\* C16: every scaleHistory(d) call on a non-empty axHistory ends with one
\* re-display, also when the pointer did not move: enableAutoRange exactly
\* when the resulting pointer is -1, and otherwise showAxRect of the
\* rectangle axHistory[axHistoryPointer].
C16_RedisplayAtPointer ==
    (HistoryCalled /\ pre[last.view].axHistory # <<>>) =>
        LET v == last.view
            ptr == views[v].axHistoryPointer
        IN  /\ Count("enableAutoRange", v) + Count("showAxRect", v) = 1
            /\ Count("enableAutoRange", v) = 1 <=> ptr = -1
            /\ ptr = -1 => views[v].range.rect = "auto"
            /\ ptr # -1 =>
                   /\ 0 <= ptr /\ ptr < Len(views[v].axHistory)
                   /\ \A i \in Where("showAxRect", v) :
                          trace[i].rect = views[v].axHistory[ptr + 1]
                   /\ views[v].range.rect = views[v].axHistory[ptr + 1]

\* Going forward from the last of two rectangles: the pointer stayed and
\* the rectangle was shown again.
C16_Witness ==
    /\ HistoryCalled
    /\ HistoryDirection = 1
    /\ Len(pre[last.view].axHistory) = 2
    /\ pre[last.view].axHistoryPointer = 1
    /\ views[last.view].axHistoryPointer = 1
    /\ Count("showAxRect", last.view) = 1
    /\ views[last.view].range.rect = views[last.view].axHistory[2]

----------------------------------------------------------------------------
(* Properties of the order of broadcast and handling *)

\* C17: a user wheel or drag event off the y axes is broadcast before the
\* view it reached handles it: at the emission of sigMouseWheelZoomed that
\* view still holds the stacks it had, and every sibling has handled the
\* event, down to the base class, before the view delegates to the base
\* class itself.
C17_BroadcastBeforeHandling ==
    ((WheelCalled \/ DragCalled) /\ ~last.fromSignal /\ last.axis # YAxis) =>
        LET v == last.view
            emitted == Where(BroadcastOfLast, v)
            own == Where(HandlingOfLast, v)
        IN  /\ Cardinality(emitted) = 1
            /\ Cardinality(own) = 1
            /\ \A b \in emitted, i \in own :
                   /\ b = 1
                   /\ b < i
                   /\ \A u \in Views \ {v} :
                          /\ Where(HandlingOfLast, u) # {}
                          /\ \A j \in Where(HandlingOfLast, u) : b < j /\ j < i
                          /\ WheelCalled =>
                                 /\ Where("sigRangeChangedManually", u) # {}
                                 /\ \A j \in Where("sigRangeChangedManually", u) : j < i
                   /\ WheelCalled =>
                          /\ trace[b].undoStack = pre[v].undoStack
                          /\ trace[b].redoStack = pre[v].redoStack
                          /\ views[v].undoStack # pre[v].undoStack

\* A wheel event over the x axis reached a view that had recorded a zoom:
\* the broadcast carried the stack as it was, and the view recorded after.
C17_Witness ==
    /\ WheelCalled
    /\ ~last.fromSignal
    /\ last.axis = XAxis
    /\ pre[last.view].undoStack # <<>>
    /\ \E b \in Where("sigMouseWheelZoomed", last.view) :
           /\ trace[b].undoStack = pre[last.view].undoStack
           /\ trace[b].undoStack # views[last.view].undoStack
    /\ \A u \in Views : views[u].range # pre[u].range

----------------------------------------------------------------------------
(* Properties of the axis of an undone zoom *)

\* C18: undo rescales both dimensions whatever axis the popped entry
\* records: scaleBy gets the recorded factor for x and for y,
\* sigRangeChangedManually is emitted once with the mask [True, True], and
\* the recorded axis only travels in zoomSignal and into the redo entry.
C18_UndoScalesBothAxes ==
    UndoRan =>
        LET v == last.view
            f == Popped.factor
        IN  /\ Popped.axis \in Axes
            /\ Cardinality(Where("sigRangeChangedManually", v)) = 1
            /\ \A i \in Where("sigRangeChangedManually", v) :
                   trace[i].mask = <<TRUE, TRUE>>
            /\ \A i \in Where("scaleBy", v) :
                   /\ trace[i].s[1] = Some(f)
                   /\ trace[i].s[2] = Some(f)
            /\ views[v].range.ex = Mul(pre[v].range.ex, f)
            /\ views[v].range.ey = Mul(pre[v].range.ey, f)
            /\ \A i \in Where("zoomSignal", v) : trace[i].axis = Popped.axis
            /\ Top(views[v].redoStack).axis = Popped.axis

\* A zoom recorded on the x axis was undone, and the y dimension moved too.
C18_Witness ==
    /\ UndoRan
    /\ Popped.axis = XAxis
    /\ Popped.factor # 0
    /\ views[last.view].range.ey # pre[last.view].range.ey
    /\ views[last.view].range.ex # pre[last.view].range.ex
    /\ Top(views[last.view].redoStack).axis = XAxis

----------------------------------------------------------------------------
(* Properties of the redo stack *)

----------------------------------------------------------------------------
(* Properties of the frame of each operation *)

\* The stacks of view v are as they were before the last operation.
StacksKept(v) ==
    /\ views[v].undoStack = pre[v].undoStack
    /\ views[v].redoStack = pre[v].redoStack

\* The axis-rect history of view v is as it was before the last operation.
HistoryKept(v) ==
    /\ views[v].axHistoryPointer = pre[v].axHistoryPointer
    /\ views[v].axHistory = pre[v].axHistory

\* View v took the drag of the last operation as the selection of a
\* rectangle: a finished drag off the axes, in RectMode.
RectSelected(v) ==
    /\ DragCalled
    /\ Where("ViewBox.mouseDragEvent", v) # {}
    /\ last.finish
    /\ last.axis = "None"
    /\ pre[v].mouseMode = RectMode

====
